---- MODULE Spec2Model ----
(***************************************************************************)
(* A model of example/example.py: the spiral data generator get_data, the  *)
(* vector field CDEFunc.forward, NeuralCDE.forward and the script main.    *)
(* Tensors are modelled by their shape and, where the code depends on it,  *)
(* by their entries. Sample i of the code (0-based) is entry i+1 here.     *)
(***************************************************************************)
EXTENDS Integers, Sequences, FiniteSets, TLC

(* ---------------- program constants ---------------- *)
NumSamples == 128
FlipCount == 64
OneCount == 64
SeqLen == 100
HiddenWidth == 128
InputChannels == 2
HiddenChannels == 8
OutputChannels == 1
BatchSize == 32
NumEpochs == 100

(* ---------------- bounds of the model ---------------- *)
MaxMult == 2
MaxShift == 3
MaxBatchDims == 2
MaxDim == 2
MaxChannels == 2

VARIABLES pc, X0, y0, X, y, t,
          params, grad, optSteps,
          coeffs, coeffCalls,
          epoch, epochsDone, cursor, batch, stages,
          initial_t, final_t, z0, cdeintT, pred,
          output, err,
          fpc, fH, fC, fIn, fz

dataVars == <<X0, y0, X, y, t>>
modelVars == <<params, grad, optSteps>>
loopVars == <<epoch, epochsDone, cursor, batch, stages>>
fwdVars == <<initial_t, final_t, z0, cdeintT, pred>>
funcVars == <<fpc, fH, fC, fIn, fz>>
vars == <<pc, dataVars, modelVars, coeffs, coeffCalls, loopVars, fwdVars,
          output, err, funcVars>>

Samples == 1..NumSamples

(* ---------------- tensor helpers ---------------- *)
RECURSIVE Prod(_)
Prod(s) == IF s = <<>> THEN 1 ELSE Head(s) * Prod(Tail(s))

Front(s) == SubSeq(s, 1, Len(s) - 1)

CountOf(f, v) == Cardinality({i \in DOMAIN f : f[i] = v})

\* the shape that marks a call that raised instead of returning
Raised == <<-1>>

\* torch.linspace(0, 99, 100): the times 0, 1, ..., 99 as a one-dimensional tensor
Linspace == [dim |-> 1, data |-> [i \in 1..SeqLen |-> i - 1]]

\* tensor[k] on a one-dimensional tensor, k a Python index (negative counts
\* from the end): a zero-dimensional tensor holding that entry
Index1D(tensor, k) ==
    [dim |-> 0,
     data |-> << tensor.data[IF k < 0 THEN Len(tensor.data) + k + 1 ELSE k + 1] >>]

RECURSIVE ConcatData(_)
ConcatData(ts) == IF ts = <<>> THEN <<>> ELSE Head(ts).data \o ConcatData(Tail(ts))

\* torch.cat(ts): concatenation along dimension 0; a zero-dimensional tensor
\* among the arguments makes torch.cat raise a RuntimeError
TorchCat(ts) ==
    IF \E k \in DOMAIN ts : ts[k].dim = 0
    THEN [ok |-> FALSE, value |-> [dim |-> 1, data |-> <<>>]]
    ELSE [ok |-> TRUE, value |-> [dim |-> 1, data |-> ConcatData(ts)]]

\* torch.nn.Linear(inF, outF) applied to a tensor of shape s
LinearShape(s, inF, outF) ==
    IF s # <<>> /\ s # Raised /\ s[Len(s)] = inF
    THEN Front(s) \o <<outF>>
    ELSE Raised

\* the view with the trailing pair in the wrong order
ViewShapeSwapped(s, h, c) ==
    IF s # <<>> /\ s # Raised /\ Prod(Front(s) \o <<c, h>>) = Prod(s)
    THEN Front(s) \o <<c, h>>
    ELSE Raised

\* z.view(*z.shape[:-1], h, c) on a tensor of shape s
ViewShape(s, h, c) ==
    IF s # <<>> /\ s # Raised /\ Prod(Front(s) \o <<h, c>>) = Prod(s)
    THEN Front(s) \o <<h, c>>
    ELSE Raised

(* ---------------- get_data ---------------- *)
\* x_pos and y_pos stacked, plus noise: trajectory i with the sign of its
\* x-channel; x_pos[:64] *= -1 flips the first FlipCount trajectories
Trajectories ==
    [i \in Samples |-> [orig |-> i, xsign |-> IF i <= FlipCount THEN -1 ELSE 1]]

\* the labels with the slice one entry short
LabelsOneShort == [i \in Samples |-> IF i < OneCount THEN 1 ELSE 0]

\* y = torch.zeros(128); y[:64] = 1
Labels == [i \in Samples |-> IF i <= OneCount THEN 1 ELSE 0]

\* the outcomes of torch.randperm(128) the model draws: i -> a*i + b mod 128
\* for odd a, a bijection of the 128 indices
AffinePerm(a, b) == [i \in Samples |-> ((a * (i - 1) + b) % NumSamples) + 1]
Multipliers == {2 * k + 1 : k \in 0..MaxMult} \cup {NumSamples - (2 * k + 1) : k \in 0..MaxMult}
RandPerms == {AffinePerm(a, b) : a \in Multipliers, b \in 0..MaxShift}

\* X[perm]
PermuteX(x, perm) == [i \in Samples |-> x[perm[i]]]
\* the labels left in block order
PermuteYForgotten(lab, perm) == lab

\* y[perm]
PermuteY(lab, perm) == [i \in Samples |-> lab[perm[i]]]

\* lines 87-98: the trajectories and labels in block order
GetDataBuild ==
    /\ pc = "get_data"
    /\ X0' = Trajectories
    /\ y0' = Labels
    /\ pc' = "gd_built"
    /\ UNCHANGED <<X, y, t, modelVars, coeffs, coeffCalls, loopVars, fwdVars,
                   output, err, funcVars>>

\* lines 100-111: one permutation applied to X and y, the time grid, return
GetDataPermute ==
    /\ pc = "gd_built"
    /\ \E perm \in RandPerms :
          /\ X' = PermuteX(X0, perm)
          /\ y' = PermuteY(y0, perm)
    /\ t' = Linspace
    /\ pc' = "gd_done"
    /\ UNCHANGED <<X0, y0, modelVars, coeffs, coeffCalls, loopVars, fwdVars,
                   output, err, funcVars>>

(* ---------------- CDEFunc.forward ---------------- *)
\* z = self.linear1(z)
FuncLinear1 ==
    /\ fpc = "linear1"
    /\ fz' = LinearShape(fz, fH, HiddenWidth)
    /\ fpc' = IF fz' = Raised THEN "raised" ELSE "tanh"
    /\ UNCHANGED <<pc, dataVars, modelVars, coeffs, coeffCalls, loopVars, fwdVars,
                   output, err, fH, fC, fIn>>

\* z = torch.tanh(z)
FuncTanh ==
    /\ fpc = "tanh"
    /\ fz' = fz
    /\ fpc' = "linear2"
    /\ UNCHANGED <<pc, dataVars, modelVars, coeffs, coeffCalls, loopVars, fwdVars,
                   output, err, fH, fC, fIn>>

\* z = self.linear2(z)
FuncLinear2 ==
    /\ fpc = "linear2"
    /\ fz' = LinearShape(fz, HiddenWidth, fC * fH)
    /\ fpc' = IF fz' = Raised THEN "raised" ELSE "view"
    /\ UNCHANGED <<pc, dataVars, modelVars, coeffs, coeffCalls, loopVars, fwdVars,
                   output, err, fH, fC, fIn>>

\* z = z.view(*z.shape[:-1], self.hidden_channels, self.input_channels); return z
FuncView ==
    /\ fpc = "view"
    /\ fz' = ViewShape(fz, fH, fC)
    /\ fpc' = IF fz' = Raised THEN "raised" ELSE "returned"
    /\ UNCHANGED <<pc, dataVars, modelVars, coeffs, coeffCalls, loopVars, fwdVars,
                   output, err, fH, fC, fIn>>

(* ---------------- the library's spline routines ---------------- *)
\* natural_cubic_spline_coeffs(t, X): the coefficient bundle of the path
\* through the observations X on the grid t, one row per sample
NaturalCubicSplineCoeffs(times, obs) == [i \in DOMAIN obs |-> [grid |-> times.data, path |-> obs[i]]]

\* NaturalCubicSpline(coeffs).evaluate(time) for a scalar time: one
\* observation of InputChannels channels per sample of the bundle
EvaluateShape(bundle, time) == <<Len(bundle), InputChannels>>

(* ---------------- main ---------------- *)
\* lines 128-129: the model with its initial parameters, no gradient yet,
\* and an optimizer that has taken no step
Construct ==
    /\ pc = "gd_done"
    /\ params' = [updates |-> 0]
    /\ grad' = <<>>
    /\ optSteps' = 0
    /\ pc' = "constructed"
    /\ UNCHANGED <<dataVars, coeffs, coeffCalls, loopVars, fwdVars, output, err, funcVars>>

\* line 137: train_coeffs
ComputeCoeffs ==
    /\ pc = "constructed"
    /\ coeffs' = NaturalCubicSplineCoeffs(t, X)
    /\ coeffCalls' = [coeffCalls EXCEPT !.train = @ + 1]
    /\ pc' = "coeffs"
    /\ UNCHANGED <<dataVars, modelVars, loopVars, fwdVars, output, err, funcVars>>

\* the batch a DataLoader(batch_size=BatchSize) without shuffling yields at
\* sampler position c: the next BatchSize samples in dataset order
BatchAt(c) == [k \in 1..(IF c + BatchSize <= NumSamples THEN BatchSize ELSE NumSamples - c) |-> c + k]

\* lines 139-141: dataset, loader, and the first value of range(100)
EpochBegin ==
    /\ pc = "coeffs"
    /\ 0 < NumEpochs
    /\ epoch' = 0
    /\ cursor' = 0
    /\ pc' = "epoch"
    /\ UNCHANGED <<dataVars, modelVars, coeffs, coeffCalls, epochsDone, batch, stages,
                   fwdVars, output, err, funcVars>>

\* lines 142-143: the loader's next batch
FetchBatch ==
    /\ pc = "epoch"
    /\ cursor < NumSamples
    /\ batch' = BatchAt(cursor)
    /\ cursor' = cursor + Len(batch')
    /\ stages' = <<>>
    /\ pc' = "batch"
    /\ UNCHANGED <<dataVars, modelVars, coeffs, coeffCalls, epoch, epochsDone,
                   fwdVars, output, err, funcVars>>

\* line 144, lines 57-61: the call model(batch_coeffs, train_t[0], train_t[-1])
\* enters NeuralCDE.forward and builds the spline
FwdSpline ==
    /\ pc = "batch"
    /\ initial_t' = Index1D(t, 0)
    /\ final_t' = Index1D(t, -1)
    /\ stages' = Append(stages, "forward")
    /\ pc' = "fwd_spline"
    /\ UNCHANGED <<dataVars, modelVars, coeffs, coeffCalls, epoch, epochsDone, cursor,
                   batch, z0, cdeintT, pred, output, err, funcVars>>

\* line 62: z0 = self.initial(cubic_spline.evaluate(initial_t))
FwdInitial ==
    /\ pc = "fwd_spline"
    /\ z0' = LinearShape(EvaluateShape(batch, initial_t), InputChannels, HiddenChannels)
    /\ pc' = "fwd_z0"
    /\ UNCHANGED <<dataVars, modelVars, coeffs, coeffCalls, loopVars,
                   initial_t, final_t, cdeintT, pred, output, err, funcVars>>

\* lines 68-71: the arguments of cdeint are evaluated; t is
\* torch.cat([initial_t, final_t]). When torch.cat raises, the exception
\* leaves forward and main, and the script ends.
FwdCat ==
    /\ pc = "fwd_z0"
    /\ LET r == TorchCat(<<initial_t, final_t>>) IN
          IF r.ok
          THEN /\ cdeintT' = r.value.data
               /\ pc' = "fwd_cdeint"
               /\ err' = err
          ELSE /\ cdeintT' = cdeintT
               /\ pc' = "raised"
               /\ err' = "RuntimeError"
    /\ UNCHANGED <<dataVars, modelVars, coeffs, coeffCalls, loopVars,
                   initial_t, final_t, z0, pred, output, funcVars>>

\* the script has ended: normally, or by an exception that main does not catch
Terminated == pc \in {"done", "raised"}

(* ---------------- specifications ---------------- *)
NoTensor == [dim |-> 1, data |-> <<>>]

MainIdle ==
    /\ X0 = <<>> /\ y0 = <<>> /\ X = <<>> /\ y = <<>> /\ t = NoTensor
    /\ params = [updates |-> 0] /\ grad = <<>> /\ optSteps = 0
    /\ coeffs = <<>> /\ coeffCalls = [train |-> 0, test |-> 0]
    /\ epoch = -1 /\ epochsDone = 0 /\ cursor = 0 /\ batch = <<>> /\ stages = <<>>
    /\ initial_t = NoTensor /\ final_t = NoTensor
    /\ z0 = <<>> /\ cdeintT = <<>> /\ pred = <<>>
    /\ output = <<>> /\ err = "none"

FuncIdle == fpc = "idle" /\ fH = 0 /\ fC = 0 /\ fIn = <<>> /\ fz = <<>>

\* the script is started
Init == pc = "get_data" /\ MainIdle /\ FuncIdle

\* Line 71 raises in every run (both time arguments are zero-dimensional), so
\* control never reaches the integrator call, lines 77-79, the rest of the loop
\* body (lines 145-149) or the evaluation (lines 151-157): the variables they
\* would assign (cdeintT, pred, grad, params, optSteps, epochsDone, output)
\* keep the values they had when the exception left main.
Next ==
    \/ GetDataBuild
    \/ GetDataPermute
    \/ Construct
    \/ ComputeCoeffs
    \/ EpochBegin
    \/ FetchBatch
    \/ FwdSpline
    \/ FwdInitial
    \/ FwdCat

Spec == Init /\ [][Next]_vars

\* CDEFunc(input_channels, hidden_channels).forward(z) on its own
ChannelChoices == (1..MaxChannels) \cup {InputChannels, HiddenChannels}
BatchPrefixes == UNION {[1..n -> 1..MaxDim] : n \in 0..MaxBatchDims}

FuncInit ==
    /\ pc = "idle" /\ MainIdle
    /\ fpc = "linear1"
    /\ fH \in ChannelChoices
    /\ fC \in ChannelChoices
    /\ \E b \in BatchPrefixes, d \in ChannelChoices : fIn = b \o <<d>>
    /\ fz = fIn

FuncNext == FuncLinear1 \/ FuncTanh \/ FuncLinear2 \/ FuncView

FuncSpec == FuncInit /\ [][FuncNext]_vars

(* ---------------- properties of get_data ---------------- *)
InGetData == pc \in {"get_data", "gd_built"}

\* C1: of the 128 labels get_data builds, exactly 64 are 1 and 64 are 0
\* before the permutation, and the permuted label vector it returns holds
\* the same number of ones and of zeros.
C1_BalancedLabels ==
    /\ pc # "get_data" =>
          /\ Len(y0) = 128
          /\ CountOf(y0, 1) = 64
          /\ CountOf(y0, 0) = 64
    /\ ~InGetData =>
          /\ Len(y) = 128
          /\ CountOf(y, 1) = CountOf(y0, 1)
          /\ CountOf(y, 0) = CountOf(y0, 0)
          /\ CountOf(y, 1) = 64

\* get_data has returned labels whose order differs from the block order
C1_Witness == pc = "gd_done" /\ y # y0 /\ \E i \in 1..64 : y[i] = 0 /\ y[i + 1] = 1

\* C9: in the returned dataset the label of sample i is 1 exactly when its
\* trajectory is one whose x-channel was flipped (original index 0..63) and
\* 0 exactly when it is an unflipped one (original index 64..127).
C9_PairingSurvives ==
    ~InGetData =>
        \A i \in Samples :
            /\ y[i] \in {0, 1}
            /\ y[i] = 1 <=> X[i].xsign = -1
            /\ y[i] = 1 <=> X[i].orig \in 1..64
            /\ y[i] = 0 <=> X[i].orig \in 65..128

\* a returned dataset that is shuffled: a flipped trajectory sits behind an
\* unflipped one
C9_Witness ==
    /\ pc = "gd_done"
    /\ \E i, j \in Samples : i < j /\ X[i].orig > 64 /\ X[j].orig <= 64 /\ y[j] = 1

(* ---------------- properties of CDEFunc.forward ---------------- *)
FuncEnded == fpc \in {"returned", "raised"}

\* C6: for an input whose last dimension is hidden_channels, with any batch
\* prefix B, CDEFunc.forward returns a tensor of shape B followed by
\* (hidden_channels, input_channels).
C6_ShapePreserved ==
    (FuncEnded /\ fIn[Len(fIn)] = fH) =>
        /\ fpc = "returned"
        /\ fz = Front(fIn) \o <<fH, fC>>

\* a call with two batch dimensions and different channel counts has returned
C6_Witness ==
    /\ fpc = "returned" /\ Len(fIn) = 3 /\ fH # fC /\ fIn[1] # fIn[2]
    /\ fH = HiddenChannels /\ fC = InputChannels

(* ---------------- properties of main ---------------- *)
BatchStages == <<"forward", "loss", "backward", "step", "zero_grad">>

\* the loop is not inside the body of a batch it has fetched
OutsideBatch == Terminated \/ (pc = "epoch" /\ cursor > 0)

\* C2: every batch goes through forward, loss, backward, optimizer step and
\* zero_grad in this order; the gradient is empty when a forward pass starts
\* and each update has used the gradient of one batch.
C2_FixedOrder ==
    /\ pc = "fwd_spline" => grad = <<>>
    /\ (OutsideBatch /\ batch # <<>>) => stages = BatchStages
    /\ optSteps > 0 => Len(grad) <= 1

\* C3: the run ends after exactly 100 epochs of 4 batches of 32 samples
\* each, that is after exactly 400 parameter updates.
C3_FourHundredUpdates ==
    Terminated =>
        /\ pc = "done"
        /\ epochsDone = 100
        /\ optSteps = 400
        /\ params.updates = 400

\* C4: the console holds 100 loss lines, for the epochs 0..99 in order,
\* each with the loss of the epoch's last batch (samples 96..127), and then
\* one accuracy line.
C4_ConsoleOutput ==
    Terminated =>
        /\ Len(output) = 101
        /\ \A e \in 1..100 :
              /\ output[e].kind = "loss"
              /\ output[e].epoch = e - 1
              /\ output[e].batch = BatchAt(96)
        /\ output[101].kind = "accuracy"

\* forward has evaluated the arguments of the integrator call
ArgumentsEvaluated == pc \in {"fwd_cdeint", "raised", "done"}

\* C5: in every call main makes, the integrator is invoked with the time
\* vector [initial_t, final_t] of exactly two entries and with the state
\* z0 = initial(X(initial_t)).
C5_TwoPointGrid ==
    ArgumentsEvaluated =>
        /\ err = "none"
        /\ Len(cdeintT) = 2
        /\ cdeintT = <<t.data[1], t.data[SeqLen]>>
        /\ z0 = <<Len(batch), HiddenChannels>>

\* C7: for output_channels = 1 the model's output for a batch is one scalar
\* per sample: its shape is the batch shape.
C7_ScalarPerSample ==
    (OutsideBatch /\ batch # <<>>) => pred = <<Len(batch)>>

\* C8: main ends by reporting the accuracy on a fresh test set of 128
\* samples: the number of predictions that match, out of 128.
C8_AccuracyReported ==
    Terminated =>
        /\ coeffCalls.test = 1
        /\ output # <<>>
        /\ output[Len(output)].kind = "accuracy"
        /\ output[Len(output)].correct \in 0..128
        /\ output[Len(output)].total = 128

\* C10: the coefficients are computed once for the training set and once
\* for the test set, and the training coefficients and labels are what they
\* were when computed, after all 400 updates.
C10_CoefficientsOnce ==
    Terminated =>
        /\ coeffCalls = [train |-> 1, test |-> 1]
        /\ coeffs = NaturalCubicSplineCoeffs(t, X)
        /\ optSteps = 400

====
